---------------------------- MODULE Spec2Model ----------------------------
(***************************************************************************)
(* The SouvenirsTable view (components/souvenirs-table.tsx): a debounced   *)
(* remote search over the "souvenirs" rows and an optimistic per-row       *)
(* toggle of is_accepted, committed to the remote store in the background. *)
(*                                                                         *)
(* One action is one callback of the event loop: a change of the search    *)
(* input (state update, re-render and the search effect with its cleanup), *)
(* the debounce timer firing, a search response, a click on a status       *)
(* badge, the resolution of the remote update, the 300ms settle timer, the *)
(* removal of a toast, unmount.  React flushes the state updates of a      *)
(* discrete event (click, input) and runs the effects before the next      *)
(* event is handled, so a handler always reads the state of the last       *)
(* step.                                                                   *)
(***************************************************************************)
EXTENDS Integers, Sequences, FiniteSets, TLC

\* ------------------------------------------------------------------ bounds
\* Date.now() returns a value in 0..MaxNow
MaxNow == 0
\* number of debounce timers window.setTimeout hands out
MaxTimers == 2
\* number of failure toasts that can be in the document together
MaxToasts == 1

\* ------------------------------------------------- the rows and the queries
\* name and number_of_souvenir of the row with id i (ids 1..Len(Names))
Names == << <<"M", "u", "g">>, <<"C", "U", "p">> >>
Quantities == << 5, 2 >>
\* is_accepted of the rows when the loader fetches them
Accepted == << FALSE, TRUE >>
Ids == 1..Len(Names)

\* the values typed into the search input
Queries == { <<>>, <<"U">>, <<"x">> }

Item(i, acc) ==
  [id |-> i, name |-> Names[i], number_of_souvenir |-> Quantities[i],
   is_accepted |-> acc]

\* ------------------------------------------------------------ pure helpers
\* String.prototype.toLowerCase, on the characters in use
ToLowerChar(c) ==
  CASE c = "M" -> "m"
    [] c = "C" -> "c"
    [] c = "U" -> "u"
    [] OTHER -> c

toLowerCase(s) == [i \in 1..Len(s) |-> ToLowerChar(s[i])]

\* String.prototype.includes
includes(s, sub) ==
  \E k \in 0..(Len(s) - Len(sub)) : SubSeq(s, k + 1, k + Len(sub)) = sub

RECURSIVE InsertById(_, _)
InsertById(x, s) ==
  IF s = <<>> THEN <<x>>
  ELSE IF x.id - Head(s).id < 0 THEN <<x>> \o s
  ELSE <<Head(s)>> \o InsertById(x, Tail(s))

\* a copy that is not sorted: setData(initialData)
KeepOrder(s) == s

\* [...xs].sort((a, b) => a.id - b.id): a stable sort by id, ascending
RECURSIVE SortById(_)
SortById(s) ==
  IF s = <<>> THEN <<>>
  ELSE InsertById(s[Len(s)], SortById(SubSeq(s, 1, Len(s) - 1)))

\* Array.prototype.filter with the name predicate of the fallback
RECURSIVE FilterByName(_, _)
FilterByName(s, q) ==
  IF s = <<>> THEN <<>>
  ELSE (IF includes(toLowerCase(Head(s).name), toLowerCase(q))
        THEN <<Head(s)>> ELSE <<>>) \o FilterByName(Tail(s), q)

\* a fallback that compares the name as written: a case-sensitive filter
RECURSIVE FilterByNameExact(_, _)
FilterByNameExact(s, q) ==
  IF s = <<>> THEN <<>>
  ELSE (IF includes(Head(s).name, q)
        THEN <<Head(s)>> ELSE <<>>) \o FilterByNameExact(Tail(s), q)

LocalFilterCaseSensitive(init, q) == FilterByNameExact(SortById(init), q)

\* the catch branch of the timer callback: client-side filtering
LocalFilter(init, q) == FilterByName(SortById(init), q)

\* the rows of the remote store, by id
RECURSIVE StoreRows(_, _)
StoreRows(store, n) ==
  IF n = 0 THEN <<>> ELSE Append(StoreRows(store, n - 1), Item(n, store[n]))

\* .select("*").ilike("name", `%${q}%`).order("id", {ascending: true})
ServerSearch(store, q) == FilterByName(StoreRows(store, Len(Names)), q)

IsDisplayed(d, id) == \E i \in 1..Len(d) : d[i].id = id

AcceptedOf(d, id) == d[CHOOSE i \in 1..Len(d) : d[i].id = id].is_accepted

\* a map that writes is_accepted of every row, not only of the row with the id
SetAllAccepted(d, id, v) == [i \in 1..Len(d) |-> [d[i] EXCEPT !.is_accepted = v]]

\* a map that leaves every row as it is
KeepAccepted(d, id, v) == d

\* prevData.map(item => item.id === id ? {...item, is_accepted: v} : item)
SetAccepted(d, id, v) ==
  [i \in 1..Len(d) |->
     IF d[i].id = id THEN [d[i] EXCEPT !.is_accepted = v] ELSE d[i]]

\* a timer that is never cleared
ClearNothing(ts, ref) == ts

\* if (searchTimeoutRef.current) window.clearTimeout(searchTimeoutRef.current)
ClearTimeout(ts, ref) ==
  IF ref # 0 THEN {t \in ts : t.tid # ref} ELSE ts

\* the orders in which the loader can hand the rows to the view
Permutations2(n) ==
  {s \in [1..n -> 1..n] : \A i, j \in 1..n : i # j => s[i] # s[j]}


\* ------------------------------------------------------------------- state
VARIABLES
  initialData,        \* the prop: the rows the loader fetched, in its order
  searchQuery,        \* useState("")
  data,               \* useState<Souvenir[]>: the displayed rows
  isSearching,        \* useState(false): the search busy flag
  updatingItems,      \* useState<Record<number, boolean>>: the ids set to true
  searchTimeoutRef,   \* useRef: id of the last debounce timer, 0 for null
  pendingUpdatesRef,  \* useRef: id -> {status, timestamp}
  timers,             \* debounce timers scheduled and neither fired nor cleared
  searches,           \* remote searches awaiting their response
  calls,              \* toggleAcceptance calls between the click and their settle timer
  remote,             \* is_accepted of each row in the remote store
  toasts,             \* "Failed to update status" toasts in the document
  mounted,            \* the view is mounted
  lastCancelled,      \* history: id of the last debounce timer cleared before it fired
  fellBack            \* history: the last callback was the catch of a failed search

vars ==
  << initialData, searchQuery, data, isSearching, updatingItems,
     searchTimeoutRef, pendingUpdatesRef, timers, searches, calls, remote,
     toasts, mounted, lastCancelled, fellBack >>

searchVars == << searchQuery, isSearching, searchTimeoutRef, timers, searches,
                 lastCancelled >>
toggleVars == << updatingItems, pendingUpdatesRef, remote, toasts >>


\* window.setTimeout returns an id it has not returned before
NewTimerId == searchTimeoutRef + 1

\* history: the timer the ref names is still scheduled when the cleanup runs
Cancelled ==
  IF \E t \in timers : t.tid = searchTimeoutRef
  THEN searchTimeoutRef ELSE lastCancelled

Init ==
  /\ \E perm \in Permutations2(Len(Names)) :
       initialData = [i \in 1..Len(Names) |-> Item(perm[i], Accepted[perm[i]])]
  /\ remote = [i \in Ids |-> Accepted[i]]
  /\ searchQuery = <<>>
  \* the mount effects: setData(sortedData), setIsSearching(false)
  /\ data = SortById(initialData)
  /\ isSearching = FALSE
  /\ updatingItems = {}
  /\ searchTimeoutRef = 0
  /\ pendingUpdatesRef = [i \in {} |-> 0]
  /\ timers = {}
  /\ searches = {}
  /\ calls = {}
  /\ toasts = 0
  /\ mounted = TRUE
  /\ lastCancelled = 0
  /\ fellBack = FALSE

\* ----------------------------------------------------------- search effect
\* onChange -> setSearchQuery(q); the effect's cleanup, then the effect
setSearchQuery(q) ==
  /\ mounted
  /\ fellBack' = FALSE
  /\ q # searchQuery
  /\ q # <<>> => NewTimerId <= MaxTimers
  /\ searchQuery' = q
  /\ lastCancelled' = Cancelled
  /\ IF q = <<>>
     THEN /\ timers' = ClearTimeout(timers, searchTimeoutRef)
          /\ data' = SortById(initialData)
          /\ isSearching' = FALSE
          /\ UNCHANGED searchTimeoutRef
     ELSE /\ isSearching' = TRUE
          /\ timers' = ClearTimeout(timers, searchTimeoutRef)
                         \cup {[tid |-> NewTimerId, q |-> q]}
          /\ searchTimeoutRef' = NewTimerId
          /\ UNCHANGED data
  /\ UNCHANGED << initialData, searches, mounted, calls >>
  /\ UNCHANGED toggleVars

\* the 500ms timer fires: the callback issues the remote search and awaits it
TimerFire(t) ==
  /\ mounted
  /\ fellBack' = FALSE
  /\ t \in timers
  /\ timers' = timers \ {t}
  /\ searches' = searches \cup {t}
  /\ UNCHANGED << initialData, searchQuery, data, isSearching, searchTimeoutRef,
                  mounted, calls, lastCancelled >>
  /\ UNCHANGED toggleVars

\* the response arrives without error: setData(searchResults), finally
SearchSucceed(s) ==
  /\ mounted
  /\ fellBack' = FALSE
  /\ s \in searches
  /\ searches' = searches \ {s}
  /\ data' = ServerSearch(remote, s.q)
  /\ isSearching' = FALSE
  /\ UNCHANGED << initialData, searchQuery, searchTimeoutRef, timers, mounted,
                  lastCancelled, calls >>
  /\ UNCHANGED toggleVars

\* the response is an error: catch (fallback filter), finally
SearchFail(s) ==
  /\ mounted
  /\ fellBack' = TRUE
  /\ s \in searches
  /\ searches' = searches \ {s}
  /\ data' = LocalFilter(initialData, s.q)
  /\ isSearching' = FALSE
  /\ UNCHANGED << initialData, searchQuery, searchTimeoutRef, timers, mounted,
                  lastCancelled, calls >>
  /\ UNCHANGED toggleVars

\* unmount runs the cleanup of the search effect; React then discards the
\* state and the refs of the view, and what later reaches the callbacks of the
\* outstanding requests and timers changes nothing that is displayed
Unmount ==
  /\ mounted
  /\ fellBack' = FALSE
  /\ mounted' = FALSE
  /\ timers' = ClearTimeout(timers, searchTimeoutRef)
  /\ lastCancelled' = Cancelled
  /\ searchQuery' = <<>>
  /\ data' = <<>>
  /\ isSearching' = FALSE
  /\ updatingItems' = {}
  /\ pendingUpdatesRef' = [i \in {} |-> 0]
  /\ searches' = {}
  /\ calls' = {}
  /\ toasts' = 0
  /\ UNCHANGED << initialData, searchTimeoutRef, remote >>

\* ---------------------------------------------------------- toggleAcceptance
\* a click handler that never takes the row for busy
NeverUpdating(id) == FALSE

\* if (updatingItems[id]) return;
IsUpdating(id) == id \in updatingItems

\* a comparison that takes no call for the most recent one
NeverMostRecent(id, ts) == FALSE

\* pendingUpdatesRef.current[id]?.timestamp === updateTimestamp
IsMostRecent(id, ts) ==
  /\ id \in DOMAIN pendingUpdatesRef
  /\ pendingUpdatesRef[id].timestamp = ts

\* pendingUpdatesRef.current[id] = {status, timestamp}
PutPending(p, id, e) ==
  [i \in DOMAIN p \cup {id} |-> IF i = id THEN e ELSE p[i]]

\* a settlement that leaves the registry entry in place
KeepPending(p, id) == p

\* delete pendingUpdatesRef.current[id]
DeletePending(p, id) == [i \in DOMAIN p \ {id} |-> p[i]]

\* a call of toggleAcceptance: its arguments, its timestamp and where it stands
\* ("commit": awaiting the remote update, "settle": awaiting the 300ms timer)
Call(id, cur, ts) ==
  [id |-> id, currentStatus |-> cur, updateTimestamp |-> ts, pc |-> "commit"]

\* an update that writes the value the row had before the click
UpdateRemoteStale(store, id, v) == [store EXCEPT ![id] = ~v]

\* supabase.from("souvenirs").update({is_accepted: v}).eq("id", id), applied
UpdateRemote(store, id, v) == [store EXCEPT ![id] = v]

\* onClick of the status badge of a displayed row: toggleAcceptance(id,
\* item.is_accepted) up to its await
toggleAcceptance(id) ==
  /\ mounted
  /\ fellBack' = FALSE
  /\ IsDisplayed(data, id)
  /\ LET currentStatus == AcceptedOf(data, id) IN
     IF IsUpdating(id)
     THEN /\ UNCHANGED << data, calls >>
          /\ UNCHANGED toggleVars
     ELSE \E updateTimestamp \in 0..MaxNow :
          /\ updatingItems' = updatingItems \cup {id}
          /\ pendingUpdatesRef' =
               PutPending(pendingUpdatesRef, id,
                          [status |-> ~currentStatus, timestamp |-> updateTimestamp])
          /\ data' = SetAccepted(data, id, ~currentStatus)
          /\ calls' = calls \cup {Call(id, currentStatus, updateTimestamp)}
          /\ UNCHANGED << remote, toasts >>
  /\ UNCHANGED << initialData, mounted >>
  /\ UNCHANGED searchVars

\* the remote update resolves without error; finally schedules the settle timer
CommitSucceed(c) ==
  /\ mounted
  /\ fellBack' = FALSE
  /\ c \in calls
  /\ c.pc = "commit"
  /\ remote' = UpdateRemote(remote, c.id, ~c.currentStatus)
  /\ calls' = (calls \ {c}) \cup {[c EXCEPT !.pc = "settle"]}
  /\ UNCHANGED << initialData, data, updatingItems, pendingUpdatesRef, toasts,
                  mounted >>
  /\ UNCHANGED searchVars

\* the remote update resolves with an error: catch, then finally
CommitFail(c) ==
  /\ mounted
  /\ fellBack' = FALSE
  /\ c \in calls
  /\ c.pc = "commit"
  /\ IF IsMostRecent(c.id, c.updateTimestamp)
     THEN /\ toasts < MaxToasts
          /\ data' = SetAccepted(data, c.id, c.currentStatus)
          /\ toasts' = toasts + 1
     ELSE UNCHANGED << data, toasts >>
  /\ calls' = (calls \ {c}) \cup {[c EXCEPT !.pc = "settle"]}
  /\ UNCHANGED << initialData, updatingItems, pendingUpdatesRef, remote,
                  mounted >>
  /\ UNCHANGED searchVars

\* the 300ms timer of finally fires
Settle(c) ==
  /\ mounted
  /\ fellBack' = FALSE
  /\ c \in calls
  /\ c.pc = "settle"
  /\ calls' = calls \ {c}
  /\ IF IsMostRecent(c.id, c.updateTimestamp)
     THEN /\ updatingItems' = updatingItems \ {c.id}
          /\ pendingUpdatesRef' = DeletePending(pendingUpdatesRef, c.id)
     ELSE UNCHANGED << updatingItems, pendingUpdatesRef >>
  /\ UNCHANGED << initialData, data, remote, toasts, mounted >>
  /\ UNCHANGED searchVars

\* the 3000ms timer of a toast fires: toast.remove()
ToastRemove ==
  /\ mounted
  /\ fellBack' = FALSE
  /\ toasts > 0
  /\ toasts' = toasts - 1
  /\ UNCHANGED << initialData, data, updatingItems, pendingUpdatesRef, calls,
                  remote, mounted >>
  /\ UNCHANGED searchVars

Next ==
  \/ \E q \in Queries : setSearchQuery(q)
  \/ \E t \in timers : TimerFire(t)
  \/ \E s \in searches : SearchSucceed(s)
  \/ \E s \in searches : SearchFail(s)
  \/ Unmount
  \/ \E id \in Ids : toggleAcceptance(id)
  \/ \E c \in calls : CommitSucceed(c)
  \/ \E c \in calls : CommitFail(c)
  \/ \E c \in calls : Settle(c)
  \/ ToastRemove

Spec == Init /\ [][Next]_vars

\* the 300ms settle timer of a call that has reached its finally block fires
\* (window.setTimeout: the browser runs the callback of every timer that is
\* not cleared, and nothing clears this one while the view is mounted)
SettleFairness ==
  \A id \in Ids : WF_vars(\E c \in calls : c.id = id /\ Settle(c))

LiveSpec == Spec /\ SettleFairness

\* ------------------------------------------------------------------ claims
\* row r is displayed with is_accepted = v
Shows(d, r, v) == IsDisplayed(d, r) /\ AcceptedOf(d, r) = v

\* the registry entry of row r carries the timestamp ts
CarriesToken(r, ts) ==
  r \in DOMAIN pendingUpdatesRef /\ pendingUpdatesRef[r].timestamp = ts

\* a step of the search effect or of a search completion: setData replaces the list
SearchEffect ==
  \/ \E q \in Queries : setSearchQuery(q)
  \/ \E s \in searches : SearchSucceed(s) \/ SearchFail(s)

\* d is the base dataset, every row once, in id-ascending order
IsSortedBase(d) ==
  /\ Len(d) = Len(initialData)
  /\ {d[i] : i \in 1..Len(d)} = {initialData[i] : i \in 1..Len(initialData)}
  /\ \A i \in 1..(Len(d) - 1) : d[i].id < d[i + 1].id

\* d is the rows of the base dataset whose name contains q, whatever the case
\* of the letters, in id-ascending order
IsLocalMatch(d, q) ==
  /\ {d[i] : i \in 1..Len(d)} =
       {initialData[i] : i \in
          {j \in 1..Len(initialData) :
             includes(toLowerCase(initialData[j].name), toLowerCase(q))}}
  /\ \A i \in 1..(Len(d) - 1) : d[i].id < d[i + 1].id

C2_StoreHoldsLastRequested ==
  \A c \in calls : c.pc = "settle" => remote[c.id] = ~c.currentStatus

\* C2 amended: at most one remote update per row is in flight, so the updates
\* of a row reach the store in issue order; the store changes only when a
\* commit succeeds, which sets the row to the value that toggle requested and
\* leaves the other rows; a failed commit leaves the store as it was.
C2_StoreFollowsCommits ==
  /\ [](\A c1, c2 \in calls : c1.id = c2.id => c1 = c2)
  /\ [][\A c \in calls :
          /\ CommitSucceed(c) =>
               /\ remote'[c.id] = ~c.currentStatus
               /\ \A r \in Ids \ {c.id} : remote'[r] = remote[r]
          /\ CommitFail(c) => remote' = remote]_vars
  /\ [][remote' # remote => \E c \in calls : c.pc = "commit" /\ CommitSucceed(c)]_vars

\* C2: the commit of a second toggle on a row (v -> !v -> v) has succeeded and
\* the store holds v again
C2_Witness ==
  \E c \in calls :
    /\ c.pc = "settle"
    /\ c.currentStatus # Accepted[c.id]
    /\ remote[c.id] = Accepted[c.id]
    /\ c.id \in updatingItems
    /\ searchTimeoutRef = 0

\* C3: the response or failure of a search that is no longer the most recently
\* scheduled one, or whose query is no longer the query, changes neither the
\* displayed list nor the search busy flag.
C3_StaleSearchIgnored ==
  [][\A s \in searches :
       (SearchSucceed(s) \/ SearchFail(s))
         /\ (s.tid # searchTimeoutRef \/ s.q # searchQuery)
       => UNCHANGED << data, isSearching >>]_vars

\* C4: a toggle on a displayed row that is not busy, whose displayed value is
\* v, in one step marks the row busy, writes the registry entry {!v, now} and
\* displays !v, while the remote update is still unresolved and the store
\* unchanged.
C4_OptimisticFlip ==
  [][\A id \in Ids :
       toggleAcceptance(id) /\ id \notin updatingItems =>
         LET v == AcceptedOf(data, id) IN
         /\ id \in updatingItems'
         /\ id \in DOMAIN pendingUpdatesRef'
         /\ pendingUpdatesRef'[id].status = ~v
         /\ Shows(data', id, ~v)
         /\ \E c \in calls' \ calls :
              /\ c.id = id
              /\ c.pc = "commit"
              /\ c.currentStatus = v
              /\ pendingUpdatesRef'[id].timestamp = c.updateTimestamp
         /\ remote' = remote]_vars

\* C4: the flip is displayed while the remote update is unresolved
C4_Witness ==
  \E c \in calls :
    /\ c.pc = "commit"
    /\ c.id \in updatingItems
    /\ Shows(data, c.id, ~c.currentStatus)
    /\ remote[c.id] = c.currentStatus
    /\ pendingUpdatesRef[c.id] =
         [status |-> ~c.currentStatus, timestamp |-> c.updateTimestamp]

\* C5: a toggle on a row that is in updatingItems changes nothing and issues
\* no remote update, and a row is in updatingItems from its toggle to its
\* settlement.
C5_BusyToggleIsNoOp ==
  /\ [](\A c \in calls : c.id \in updatingItems)
  /\ [][\A id \in Ids :
          toggleAcceptance(id) /\ id \in updatingItems =>
            UNCHANGED << data, updatingItems, pendingUpdatesRef, calls, remote,
                         toasts, searchQuery, isSearching >>]_vars

\* C5: a displayed row is busy after its commit has resolved and before its
\* settle timer: the state a click on it starts from and, being a no-op, ends in
C5_Witness ==
  \E c \in calls :
    /\ mounted
    /\ c.pc = "settle"
    /\ c.id \in updatingItems
    /\ IsDisplayed(data, c.id)

\* C6: when the commit of a call fails and the registry entry of its row still
\* carries the call's timestamp, the row (when it is displayed) goes back to
\* the pre-toggle value and one more toast is in the document.
C6_RollbackOnFailure ==
  [][\A c \in calls :
       CommitFail(c) /\ CarriesToken(c.id, c.updateTimestamp) =>
         /\ IsDisplayed(data, c.id) => Shows(data', c.id, c.currentStatus)
         /\ \A r \in Ids \ {c.id} :
              IsDisplayed(data, r) => Shows(data', r, AcceptedOf(data, r))
         /\ Len(data') = Len(data)
         /\ toasts' = toasts + 1]_vars

\* C6: no search effect has ever run, a commit has failed, the row shows the
\* pre-toggle value again and the toast is in the document
C6_Witness ==
  \E c \in calls :
    /\ searchTimeoutRef = 0
    /\ c.pc = "settle"
    /\ Shows(data, c.id, c.currentStatus)
    /\ toasts > 0

\* C8: clearing the input while the search of the query is still scheduled
\* leaves the base dataset in id order on display, the busy flag false and no
\* timer scheduled; a timer fires only as the last one scheduled, for the
\* query the input still holds.
C8_ClearCancels ==
  /\ [][setSearchQuery(<<>>) =>
          /\ IsSortedBase(data')
          /\ isSearching' = FALSE
          /\ timers' = {}]_vars
  /\ [][\A t \in timers :
          TimerFire(t) => t.tid = searchTimeoutRef /\ t.q = searchQuery]_vars
  /\ [](\A s \in searches : s.tid # lastCancelled)

\* C8: the second scheduled search was cleared by clearing the input
C8_Witness ==
  /\ mounted
  /\ searchQuery = <<>>
  /\ searchTimeoutRef >= 2
  /\ lastCancelled = searchTimeoutRef
  /\ IsSortedBase(data)
  /\ ~isSearching
  /\ timers = {}

\* C9: at most one debounce timer is scheduled, and only while the view is
\* mounted; it is the last one scheduled and its query is the non-empty query
\* of the input; a timer fires once: no search in flight shares its id with a
\* scheduled timer or with another search, and none is for the empty query.
C9_OneScheduledSearch ==
  /\ Cardinality(timers) <= 1
  /\ \A t \in timers :
       /\ mounted
       /\ t.tid = searchTimeoutRef
       /\ t.q = searchQuery
       /\ t.q # <<>>
  /\ \A s \in searches :
       /\ s.q # <<>>
       /\ s.tid # lastCancelled
       /\ \A t \in timers : t.tid # s.tid
       /\ \A s2 \in searches : s2.tid = s.tid => s2 = s

\* C9: a change of the query has cleared the first timer and the second one is
\* scheduled
C9_Witness ==
  /\ searchTimeoutRef = 2
  /\ lastCancelled = 1
  /\ \E t \in timers : t.tid = 2

\* C10: the failure of the search for the current query displays the rows of
\* the base dataset matching the query, in id order, clears the busy flag and
\* shows no toast; its success displays the response.
C10_SearchCompletion ==
  [][\A s \in searches :
       s.q = searchQuery =>
         /\ SearchFail(s) =>
              /\ IsLocalMatch(data', s.q)
              /\ isSearching' = FALSE
              /\ toasts' = toasts
         /\ SearchSucceed(s) =>
              /\ data' = ServerSearch(remote, s.q)
              /\ isSearching' = FALSE
              /\ toasts' = toasts]_vars

\* C10: the search of the current query has failed and the display is the two
\* rows the query matches, in id order, from a base dataset in the other order
C10_Witness ==
  /\ mounted
  /\ searchQuery # <<>>
  /\ ~isSearching
  /\ timers = {} /\ searches = {} /\ calls = {}
  /\ fellBack
  /\ Len(data) = 2
  /\ initialData[1].id > initialData[2].id
  /\ IsLocalMatch(data, searchQuery)

\* the ids of the rows of d, in the order of d
IdsOf(d) == [i \in 1..Len(d) |-> d[i].id]

\* C11 as stated: whenever the query is empty the displayed rows are the rows
\* of the base dataset, every row once, in id-ascending order, and the search
\* busy flag is false, also after a search for an earlier query has completed.
C11_EmptyQueryShowsBase ==
  mounted /\ searchQuery = <<>> =>
    /\ IdsOf(data) = IdsOf(SortById(initialData))
    /\ ~isSearching

C13_BusyMirrorsRegistry ==
  /\ updatingItems = DOMAIN pendingUpdatesRef
  /\ \A id \in DOMAIN pendingUpdatesRef :
       \E c \in calls :
         /\ c.id = id
         /\ pendingUpdatesRef[id] =
              [status |-> ~c.currentStatus, timestamp |-> c.updateTimestamp]

\* C13: a row that was toggled, committed and settled has been toggled again:
\* it is busy and its entry holds the values of the second toggle, while the
\* other row is busy too
C13_Witness ==
  /\ updatingItems = Ids
  /\ \E c \in calls :
       /\ c.currentStatus # Accepted[c.id]
       /\ c.id \in DOMAIN pendingUpdatesRef
       /\ pendingUpdatesRef[c.id].status = Accepted[c.id]

\* C14: once the remote commit of the outstanding toggle of a row has resolved,
\* with or without error, the row eventually is out of the Updating-Set and
\* has no registry entry; a toggle on a displayed row that is not busy is
\* accepted (it marks the row busy and issues a call), and the failure of a
\* commit changes the Updating-Set of no row.
C14_SettlesAndAcceptsAgain ==
  /\ \A id \in Ids :
       (\E c \in calls : c.id = id /\ c.pc = "settle")
         ~> (id \notin updatingItems /\ id \notin DOMAIN pendingUpdatesRef)
  /\ [][\A id \in Ids :
          toggleAcceptance(id) /\ id \notin updatingItems =>
            /\ id \in updatingItems'
            /\ \E c \in calls' \ calls : c.id = id /\ c.pc = "commit"]_vars
  /\ [][\A c \in calls :
          c.pc = "commit" /\ CommitFail(c) =>
            updatingItems' = updatingItems]_vars

\* C14: a commit has failed (its toast is shown) and since then its row has
\* been settled and toggled again: both rows have a toggle awaiting its commit
C14_Witness ==
  /\ toasts = 1
  /\ \A id \in Ids : \E c \in calls : c.id = id /\ c.pc = "commit"

\* C15: while the view is mounted a row leaves the Updating-Set only by the
\* settle step of its own call, which follows the resolution of the call's
\* commit; as long as the commit has not resolved the row is busy and a toggle
\* on it changes nothing, whatever the search and the other rows do.
C15_BusyUntilOwnSettle ==
  /\ [][\A id \in updatingItems :
          id \notin updatingItems' =>
            \/ Unmount
            \/ \E c \in calls : c.id = id /\ c.pc = "settle" /\ Settle(c)]_vars
  /\ [](\A c \in calls : c.pc = "commit" => c.id \in updatingItems)
  /\ [][\A c \in calls :
          c.pc = "commit" /\ toggleAcceptance(c.id) =>
            UNCHANGED << data, calls, updatingItems, pendingUpdatesRef,
                         remote >>]_vars

\* C15: row 1 is displayed and busy with its commit unresolved while row 2 has
\* been toggled too and a remote search is in flight
C15_Witness ==
  /\ IsDisplayed(data, 1)
  /\ 1 \in updatingItems
  /\ \E c1, c2 \in calls :
       /\ c1.id = 1 /\ c1.pc = "commit"
       /\ c2.id = 2
  /\ searches # {}

\* C16: in every state the displayed rows are in strictly ascending order of
\* id (sorted, no id twice), whatever the order of the base dataset: after the
\* initial load, a reset, a search result, a local fallback, an optimistic flip
\* and a rollback.
C16_DisplaySortedById ==
  \A i \in 1..(Len(data) - 1) : data[i].id < data[i + 1].id

\* C16: the base dataset was handed over in descending order of id, a search
\* that matches both rows has completed and a rollback has taken place: two
\* rows are displayed
C16_Witness ==
  /\ initialData[1].id > initialData[2].id
  /\ searchQuery = <<"U">>
  /\ ~isSearching /\ timers = {} /\ searches = {}
  /\ toasts = 1
  /\ Len(data) = 2

\* C17 as stated: whenever no row is busy and no search is scheduled or in
\* flight, every displayed row's accepted value is the value the remote store
\* holds for the row.
C17_DisplayAgreesWithStore ==
  mounted /\ updatingItems = {} /\ timers = {} /\ searches = {} =>
    \A i \in 1..Len(data) : data[i].is_accepted = remote[data[i].id]

\* C18 as stated: while a row is in the Updating-Set and its commit has not
\* resolved, the displayed accepted value of the row, when the row is
\* displayed, is the status of its registry entry.
C18_BusyRowShowsDesired ==
  \A c \in calls :
    c.pc = "commit" /\ c.id \in updatingItems /\ IsDisplayed(data, c.id) =>
      AcceptedOf(data, c.id) = pendingUpdatesRef[c.id].status

\* C19 as stated: whenever the query is not empty and the search scheduled for
\* it has not completed (its timer is pending or its request is in flight), the
\* search busy flag is true.
C19_BusyWhileSearchOutstanding ==
  /\ mounted
  /\ searchQuery # <<>>
  /\ \E t \in timers \cup searches :
       t.tid = searchTimeoutRef /\ t.q = searchQuery
  => isSearching

\* in this step the displayed list keeps its rows and their order, and no field
\* of any row changes except is_accepted of the row with the id
OnlyAcceptedOf(id) ==
  /\ Len(data') = Len(data)
  /\ \A i \in 1..Len(data) :
       \/ data'[i] = data[i]
       \/ /\ data[i].id = id
          /\ data'[i] = [data[i] EXCEPT !.is_accepted = data'[i].is_accepted]

\* in this step the busy flag and the registry entry of every other id, the
\* query and the search busy flag stay as they are
OthersKept(id) ==
  /\ updatingItems' \ {id} = updatingItems \ {id}
  /\ \A j \in Ids \ {id} :
       /\ j \in DOMAIN pendingUpdatesRef' <=> j \in DOMAIN pendingUpdatesRef
       /\ j \in DOMAIN pendingUpdatesRef =>
            pendingUpdatesRef'[j] = pendingUpdatesRef[j]
  /\ searchQuery' = searchQuery
  /\ isSearching' = isSearching

\* C20: a toggle, its commit success, its rollback and its settlement change
\* nothing but is_accepted of the displayed row with the id and the busy flag
\* and registry entry of the id; a successful commit and a settlement change
\* nothing that is displayed.
C20_ToggleFrame ==
  [][/\ \A id \in Ids :
          toggleAcceptance(id) => OnlyAcceptedOf(id) /\ OthersKept(id)
     /\ \A c \in calls :
          /\ c.pc = "commit" /\ CommitSucceed(c) =>
               /\ data' = data
               /\ updatingItems' = updatingItems
               /\ pendingUpdatesRef' = pendingUpdatesRef
               /\ OthersKept(c.id)
          /\ c.pc = "commit" /\ CommitFail(c) =>
               /\ OnlyAcceptedOf(c.id)
               /\ updatingItems' = updatingItems
               /\ pendingUpdatesRef' = pendingUpdatesRef
               /\ OthersKept(c.id)
          /\ c.pc = "settle" /\ Settle(c) =>
               /\ data' = data
               /\ OthersKept(c.id)]_vars

\* C20: with both rows displayed and a search scheduled, the commit of one
\* row's toggle has failed and the row shows its pre-toggle value again, while
\* the toggle of the other row awaits its commit
C20_Witness ==
  /\ Len(data) = 2
  /\ searchQuery # <<>> /\ isSearching
  /\ toasts = 1
  /\ \E c, c2 \in calls :
       /\ c.pc = "settle"
       /\ remote[c.id] = c.currentStatus
       /\ Shows(data, c.id, c.currentStatus)
       /\ c2.id # c.id /\ c2.pc = "commit"

=============================================================================
